---- MODULE Spec2Model ----
(***************************************************************************)
(* Validation of the Incorporation Application filing                      *)
(* (legal_api/services/filings/validations/incorporation_application.py).  *)
(*                                                                         *)
(* A filing is the content of json['filing']: a record keyed by section    *)
(* name.  A Python dict that the code iterates is a sequence of            *)
(* <<key, value>> pairs with distinct keys (insertion order); a Python     *)
(* list is a sequence.  A validation error {'error': e, 'path': p} is a    *)
(* record whose error is the sequence of the message's pieces and whose    *)
(* path is the sequence of the pointer's segments.                         *)
(***************************************************************************)
EXTENDS Integers, Sequences, FiniteSets, TLC

VARIABLES
    input,      \* the arguments of the call under way
    pc,         \* the position of the call
    msg,        \* validate's / validate_correction_ia's accumulator `msg`
    called,     \* the rule-checkers called so far, with what each returned
    result      \* what the call returned (or raised)

vars == <<input, pc, msg, called, result>>

(***************************************************************************)
(* Python values                                                           *)
(***************************************************************************)
\* Python's None where a string is expected.
None == "<None>"

\* What a function hands back: None, a list, an Error object, an exception.
PyNone == [kind |-> "None"]
PyList(items) == [kind |-> "list", items |-> items]
Error(code, errors) == [kind |-> "Error", code |-> code, msg |-> errors]
Raised(exc) == [kind |-> "raise", exc |-> exc]
NotReturned == [kind |-> "running"]

\* `if err:` - None and the empty list are falsy.
Truthy(r) == r.kind = "list" /\ r.items # <<>>

\* `if msg: return msg` / `return None`, the ending of the rule functions.
MsgOrNone(m) == IF m # <<>> THEN PyList(m) ELSE PyNone

\* `msg.extend(err)` guarded by `if err:`.
ExtendIf(m, r) == IF Truthy(r) THEN m \o r.items ELSE m

\* dict access on a sequence of <<key, value>> pairs.
Keys(d) == {d[i][1] : i \in 1..Len(d)}
Get(d, k) == d[CHOOSE i \in 1..Len(d) : d[i][1] = k][2]

\* Sequences over S of length at most n, and those without repetition.
SeqsUpTo(S, n) == UNION {[1..k -> S] : k \in 0..n}
InjSeqsUpTo(S, n) ==
    {s \in SeqsUpTo(S, n) : \A i, j \in 1..Len(s) : s[i] = s[j] => i = j}

\* The dict holding f's keys in the order `order` lists them.
OrderedDict(order, f) ==
    LET ks == SelectSeq(order, LAMBDA k : k \in DOMAIN f)
    IN  [i \in 1..Len(ks) |-> <<ks[i], f[ks[i]]>>]

RECURSIVE Flatten(_)
Flatten(ss) == IF ss = <<>> THEN <<>> ELSE Head(ss) \o Flatten(Tail(ss))

BAD_REQUEST == 400

(***************************************************************************)
(* validate_offices, _validate_address                                     *)
(***************************************************************************)
\* pycountry.countries.search_fuzzy(country): the matches, best first; the
\* empty sequence stands for LookupError.
search_fuzzy(country) ==
    CASE country = "CA" -> <<"CA">>
      [] country = "Canada" -> <<"CA">>
      [] country = "US" -> <<"US">>
      [] OTHER -> <<>>

RegionError(filing_type, address_key, k) ==
    [error |-> <<"Address Region must be 'BC'.">>,
     path |-> <<"filing", filing_type, "offices", address_key, k, "addressRegion">>]

CountryError(filing_type, address_key, k) ==
    [error |-> <<"Address Country must be 'CA'.">>,
     path |-> <<"filing", filing_type, "offices", address_key, k, "addressCountry">>]

InvalidOfficeError(filing_type, item) ==
    [error |-> <<"Invalid office ", item,
                 ". Only registeredOffice and recordsOffice are allowed.">>,
     path |-> <<"filing", filing_type, "offices">>]

\* The try block of _validate_address: TRUE when the except branch is taken.
CountryLookupFails(country) ==
    LET found == search_fuzzy(country)
    IN  IF found = <<>> THEN TRUE ELSE found[1] # "CA"

\* One turn of the loop of _validate_address over addresses[address_key].items().
\* (A variant that skips the country check after a region error.)
AddressErrors_elif(filing_type, address_key, k, v) ==
    IF v.addressRegion # "BC"
    THEN <<RegionError(filing_type, address_key, k)>>
    ELSE IF CountryLookupFails(v.addressCountry)
         THEN <<CountryError(filing_type, address_key, k)>> ELSE <<>>

AddressErrors(filing_type, address_key, k, v) ==
    (IF v.addressRegion # "BC"
        THEN <<RegionError(filing_type, address_key, k)>> ELSE <<>>)
    \o (IF CountryLookupFails(v.addressCountry)
        THEN <<CountryError(filing_type, address_key, k)>> ELSE <<>>)

validate_address(addresses, address_key, filing_type) ==
    LET entries == Get(addresses, address_key)
    IN  Flatten([i \in 1..Len(entries) |->
                    AddressErrors(filing_type, address_key, entries[i][1], entries[i][2])])

AllowedOffices == {"registeredOffice", "recordsOffice"}

validate_offices(filing_json, filing_type) ==
    LET addresses == filing_json[filing_type].offices
    IN  Flatten([i \in 1..Len(addresses) |->
            LET item == addresses[i][1]
            IN  IF item \in AllowedOffices
                THEN validate_address(addresses, item, filing_type)
                ELSE <<InvalidOfficeError(filing_type, item)>>])

(***************************************************************************)
(* Inputs of validate_offices                                              *)
(***************************************************************************)
MaxOffices == 2

OfficeKeys == AllowedOffices \cup {"customOffice"}
AddressKindOrder == <<"mailingAddress", "deliveryAddress">>
AddressKinds == {AddressKindOrder[i] : i \in 1..Len(AddressKindOrder)}
Regions == {"BC", "AB"}
Countries == {"CA", "US", "Atlantis"}
OfficeAddresses == [addressRegion : Regions, addressCountry : Countries]

\* The address entries of one office: any of the address kinds, in the
\* order the schema lists them.
AddressDicts ==
    UNION {{OrderedDict(AddressKindOrder, f) : f \in [S -> OfficeAddresses]} :
              S \in SUBSET AddressKinds}

\* The offices mapping: at most MaxOffices distinct keys, in any order.
OfficesWithKeys(ks) ==
    {[i \in 1..Len(ks) |-> <<ks[i], vs[i]>>] : vs \in [1..Len(ks) -> AddressDicts]}

InitOffices ==
    /\ \E ks \in InjSeqsUpTo(OfficeKeys, MaxOffices) : \E o \in OfficesWithKeys(ks) :
          input = [filing |-> [incorporationApplication |-> [offices |-> o]],
                   filing_type |-> "incorporationApplication"]
    /\ pc = "validate_offices"
    /\ msg = <<>>
    /\ called = <<>>
    /\ result = NotReturned

CallValidateOffices ==
    /\ pc = "validate_offices"
    /\ result' = PyList(validate_offices(input.filing, input.filing_type))
    /\ pc' = "returned"
    /\ UNCHANGED <<input, msg, called>>

NextOffices == CallValidateOffices

SpecOffices == InitOffices /\ [][NextOffices]_vars

(***************************************************************************)
(* validate_roles                                                          *)
(***************************************************************************)
\* Business.LegalTypes, by member name; SOLE_PROP stands for a legal type
\* that none of the rules names.
BCOMP == "BCOMP"
COMP == "COMP"
BC_ULC_COMPANY == "BC_ULC_COMPANY"
BC_CCC == "BC_CCC"
COOP == "COOP"
SOLE_PROP == "SOLE_PROP"
LegalTypes == {BCOMP, COMP, BC_ULC_COMPANY, BC_CCC, COOP, SOLE_PROP}

min_director_count_info ==
    (BCOMP :> 1) @@ (COMP :> 1) @@ (BC_ULC_COMPANY :> 1) @@ (BC_CCC :> 3)

\* min_director_count_info.get(legal_type, 0)
min_director_count(legal_type) ==
    IF legal_type \in DOMAIN min_director_count_info
    THEN min_director_count_info[legal_type] ELSE 0

CoopMinDirectors == 3

RolesPath(filing_type) == <<"filing", filing_type, "parties", "roles">>
RolesError(text, filing_type) == [error |-> text, path |-> RolesPath(filing_type)]

MinCompletingParty == <<"Must have a minimum of one completing party">>
MaxCompletingParty == <<"Must have a maximum of one completing party">>
StaffCompletingParty ==
    <<"Should not provide completing party when correction type is STAFF">>
InvalidIncorporator == <<"Incorporator is an invalid party role">>
MinThreeDirectors == <<"Must have a minimum of three Directors">>
MinOneIncorporator == <<"Must have a minimum of one Incorporator">>
CannotCorrectIncorporator == <<"Cannot correct Incorporator role">>
MinDirectors(n) == <<"Must have a minimum of ", ToString(n), " Director">>

\* The two nested loops: the role entries of all the parties, in order, and
\* how many of them carry roleType.
RoleEntries(parties_array) ==
    Flatten([i \in 1..Len(parties_array) |-> parties_array[i].roles])

RoleTally(parties_array, roleType) ==
    Len(SelectSeq(RoleEntries(parties_array), LAMBDA role : role.roleType = roleType))

\* filing_dict['filing'][filing_type].get('type')
CorrectionType(section) == IF "type" \in DOMAIN section THEN section.type ELSE None

\* The completing-party branch (lines 161-172).
\* (A variant whose maximum test reads `> 2`.)
CompletingPartyErrors_offByOne(filing_type, type, completing_party_count) ==
    IF filing_type = "incorporationApplication"
       \/ (filing_type = "correction" /\ type = "CLIENT")
    THEN IF completing_party_count = 0
         THEN <<RolesError(MinCompletingParty, filing_type)>>
         ELSE IF completing_party_count > 2
              THEN <<RolesError(MaxCompletingParty, filing_type)>>
              ELSE <<>>
    ELSE IF filing_type = "correction" /\ type = "STAFF" /\ completing_party_count # 0
         THEN <<RolesError(StaffCompletingParty, filing_type)>>
         ELSE <<>>

CompletingPartyErrors(filing_type, type, completing_party_count) ==
    IF filing_type = "incorporationApplication"
       \/ (filing_type = "correction" /\ type = "CLIENT")
    THEN IF completing_party_count = 0
         THEN <<RolesError(MinCompletingParty, filing_type)>>
         ELSE IF completing_party_count > 1
              THEN <<RolesError(MaxCompletingParty, filing_type)>>
              ELSE <<>>
    ELSE IF filing_type = "correction" /\ type = "STAFF" /\ completing_party_count # 0
         THEN <<RolesError(StaffCompletingParty, filing_type)>>
         ELSE <<>>

\* The legal-type branch (lines 174-194).
\* (A variant that applies the minimum-director table to every legal type.)
LegalTypeRoleErrors_tableForAll(legal_type, filing_type, incorporator_count, director_count) ==
    (IF legal_type = COOP /\ incorporator_count > 0
        THEN <<RolesError(InvalidIncorporator, filing_type)>> ELSE <<>>)
    \o (IF director_count < min_director_count(legal_type)
        THEN <<RolesError(MinDirectors(min_director_count(legal_type)), filing_type)>>
        ELSE <<>>)

LegalTypeRoleErrors(legal_type, filing_type, incorporator_count, director_count) ==
    IF legal_type = COOP
    THEN (IF incorporator_count > 0
             THEN <<RolesError(InvalidIncorporator, filing_type)>> ELSE <<>>)
         \o (IF director_count < CoopMinDirectors
             THEN <<RolesError(MinThreeDirectors, filing_type)>> ELSE <<>>)
    ELSE (IF filing_type = "incorporationApplication" /\ incorporator_count < 1
             THEN <<RolesError(MinOneIncorporator, filing_type)>>
             ELSE IF filing_type = "correction" /\ incorporator_count > 0
                  THEN <<RolesError(CannotCorrectIncorporator, filing_type)>>
                  ELSE <<>>)
         \o (IF director_count < min_director_count(legal_type)
             THEN <<RolesError(MinDirectors(min_director_count(legal_type)), filing_type)>>
             ELSE <<>>)

validate_roles(filing_dict, legal_type, filing_type) ==
    LET parties_array == filing_dict[filing_type].parties
        completing_party_count == RoleTally(parties_array, "Completing Party")
        incorporator_count == RoleTally(parties_array, "Incorporator")
        director_count == RoleTally(parties_array, "Director")
    IN  MsgOrNone(
            CompletingPartyErrors(filing_type, CorrectionType(filing_dict[filing_type]),
                                  completing_party_count)
            \o LegalTypeRoleErrors(legal_type, filing_type, incorporator_count,
                                   director_count))

(***************************************************************************)
(* Inputs of validate_roles                                                *)
(***************************************************************************)
MaxRoleParties == 2
MaxRoles == 2

RoleTypes == {"Completing Party", "Incorporator", "Director"}
RoleLists == SeqsUpTo([roleType : RoleTypes], MaxRoles)
RoleParties == SeqsUpTo([roles : RoleLists], MaxRoleParties)

\* The section a filing type reads: an incorporation application, or a
\* correction with or without its type.
RoleSections(parties) ==
    {[filing_type |-> "incorporationApplication",
      filing |-> [incorporationApplication |-> [parties |-> parties]]],
     [filing_type |-> "correction",
      filing |-> [correction |-> [parties |-> parties]]]}
    \cup {[filing_type |-> "correction",
           filing |-> [correction |-> [parties |-> parties, type |-> t]]] :
             t \in {"CLIENT", "STAFF"}}

InitRoles ==
    /\ \E parties \in RoleParties : \E s \in RoleSections(parties) :
       \E legal_type \in LegalTypes :
          input = [filing |-> s.filing, filing_type |-> s.filing_type,
                   legal_type |-> legal_type]
    /\ pc = "validate_roles"
    /\ msg = <<>>
    /\ called = <<>>
    /\ result = NotReturned

CallValidateRoles ==
    /\ pc = "validate_roles"
    /\ result' = validate_roles(input.filing, input.legal_type, input.filing_type)
    /\ pc' = "returned"
    /\ UNCHANGED <<input, msg, called>>

NextRoles == CallValidateRoles

SpecRoles == InitRoles /\ [][NextRoles]_vars

(***************************************************************************)
(* validate_parties_mailing_address                                        *)
(***************************************************************************)
FiftyPercent == 50

MailingPath(filing_type) == <<"filing", filing_type, "parties", "mailingAddress">>

\* 'Person %s: Mailing address %s %s is invalid' % (id, k, v), v being None.
NullFieldError(filing_type, id, k) ==
    [error |-> <<"Person ", id, ": Mailing address ", k, " None is invalid">>,
     path |-> <<"filing", filing_type, "parties", id, "mailingAddress", k, "None", "">>]

MinOneBC ==
    <<"Must have minimum of one BC mailing address">>
MajorityInCanada ==
    <<"Must have majority of mailing addresses in Canada">>

\* item.get('mailingAddress', {}).get(key, None)
MailingField(item, key) ==
    IF key \in Keys(item.mailingAddress) THEN Get(item.mailingAddress, key) ELSE None

\* `if x:` on a string or None.
Falsy(x) == x = None \/ x = ""

RECURSIVE Sum(_)
Sum(ns) == IF ns = <<>> THEN 0 ELSE Head(ns) + Sum(Tail(ns))

\* The counters: the statements that add to them stand inside the loop over
\* the (k, v) of the party's mailing address (lines 229-244), so each runs
\* once for every field of the party's address, with a test that reads the
\* party and not the field.
FieldTurns(item, adds) ==
    Sum([j \in 1..Len(item.mailingAddress) |-> IF adds THEN 1 ELSE 0])

bc_party_ma_count(parties_array) ==
    Sum([i \in 1..Len(parties_array) |->
            FieldTurns(parties_array[i],
                       MailingField(parties_array[i], "addressRegion") = "BC")])

country_total_ma_count(parties_array) ==
    Sum([i \in 1..Len(parties_array) |->
            FieldTurns(parties_array[i],
                       ~Falsy(MailingField(parties_array[i], "addressCountry")))])

country_ca_party_ma_count(parties_array) ==
    Sum([i \in 1..Len(parties_array) |->
            FieldTurns(parties_array[i],
                       MailingField(parties_array[i], "addressCountry") = "CA")])

NullFieldErrors(parties_array, filing_type) ==
    Flatten([i \in 1..Len(parties_array) |->
        LET item == parties_array[i]
            ma == item.mailingAddress
        IN  Flatten([j \in 1..Len(ma) |->
                IF ma[j][2] = None
                THEN <<NullFieldError(filing_type, item.officer.id, ma[j][1])>>
                ELSE <<>>])])

\* The cooperative rules (lines 246-254); the division raises when no
\* counted field belongs to an address with a country.  The percentage
\* ca / total * 100 is at most 50 exactly when 100 * ca <= 50 * total.
\* (A variant that never divides: no country counts as no majority.)
validate_parties_mailing_address_guarded(incorporation_json, legal_type, filing_type) ==
    LET parties_array == incorporation_json[filing_type].parties
        nulls == NullFieldErrors(parties_array, filing_type)
        bc == bc_party_ma_count(parties_array)
        ca == country_ca_party_ma_count(parties_array)
        total == country_total_ma_count(parties_array)
        bcErr == IF bc < 1
                 THEN <<[error |-> MinOneBC, path |-> MailingPath(filing_type)]>>
                 ELSE <<>>
        caErr == IF 100 * ca <= FiftyPercent * total
                 THEN <<[error |-> MajorityInCanada, path |-> MailingPath(filing_type)]>>
                 ELSE <<>>
    IN  IF legal_type = COOP
        THEN MsgOrNone(nulls \o bcErr \o caErr)
        ELSE MsgOrNone(nulls)

validate_parties_mailing_address(incorporation_json, legal_type, filing_type) ==
    LET parties_array == incorporation_json[filing_type].parties
        nulls == NullFieldErrors(parties_array, filing_type)
        bc == bc_party_ma_count(parties_array)
        ca == country_ca_party_ma_count(parties_array)
        total == country_total_ma_count(parties_array)
        bcErr == IF bc < 1
                 THEN <<[error |-> MinOneBC, path |-> MailingPath(filing_type)]>>
                 ELSE <<>>
        caErr == IF 100 * ca <= FiftyPercent * total
                 THEN <<[error |-> MajorityInCanada, path |-> MailingPath(filing_type)]>>
                 ELSE <<>>
    IN  IF legal_type = COOP
        THEN IF total = 0
             THEN Raised("ZeroDivisionError")
             ELSE MsgOrNone(nulls \o bcErr \o caErr)
        ELSE MsgOrNone(nulls)

(***************************************************************************)
(* Inputs of validate_parties_mailing_address                              *)
(***************************************************************************)
MaxMailParties == 2

MailFieldOrder == <<"streetAddress", "addressRegion", "addressCountry">>
MailFieldValues ==
    [streetAddress |-> {"123 Main St", None},
     addressRegion |-> {"BC", "AB"},
     addressCountry |-> {"CA", "US", None}]

\* A mailing address: any of the fields, each with one of its values.
MailingAddresses ==
    UNION {{OrderedDict(MailFieldOrder, f) :
                f \in {g \in [S -> UNION {MailFieldValues[k] : k \in S}] :
                          \A k \in S : g[k] \in MailFieldValues[k]}} :
              S \in SUBSET DOMAIN MailFieldValues}

\* Parties with the given mailing addresses; a party's id is its position.
MailParties(addresses) ==
    [i \in 1..Len(addresses) |->
        [officer |-> [id |-> ToString(i)], mailingAddress |-> addresses[i]]]

InitMailing ==
    /\ \E addresses \in SeqsUpTo(MailingAddresses, MaxMailParties) :
       \E legal_type \in LegalTypes :
          input = [filing |-> [incorporationApplication |->
                                  [parties |-> MailParties(addresses)]],
                   filing_type |-> "incorporationApplication",
                   legal_type |-> legal_type]
    /\ pc = "validate_parties_mailing_address"
    /\ msg = <<>>
    /\ called = <<>>
    /\ result = NotReturned

CallValidatePartiesMailingAddress ==
    /\ pc = "validate_parties_mailing_address"
    /\ result' = validate_parties_mailing_address(input.filing, input.legal_type,
                                                  input.filing_type)
    /\ pc' = IF result'.kind = "raise" THEN "raised" ELSE "returned"
    /\ UNCHANGED <<input, msg, called>>

NextMailing == CallValidatePartiesMailingAddress

SpecMailing == InitMailing /\ [][NextMailing]_vars

(***************************************************************************)
(* validate_incorporation_effective_date                                   *)
(***************************************************************************)
\* Time is counted in minutes.  The text of a timestamp is <<day, minute of
\* the day>>; any other text is not ISO format.
MinutesPerDay == 1440
TwoMinutes == 2
TenDays == 10

\* dt.fromisoformat: the instant, or ValueError.
fromisoformat(text) ==
    IF Len(text) = 2 /\ text[2] < MinutesPerDay
    THEN [ok |-> TRUE, t |-> text[1] * MinutesPerDay + text[2]]
    ELSE [ok |-> FALSE]

InvalidISOFormat(text) ==
    [error |-> <<text, " is an invalid ISO format for effective_date.">>]
MinTwoMinutesAhead ==
    [error |-> <<"Invalid Datetime, effective date must be a minimum of 2 minutes ahead.">>]
MaxTenDaysAhead ==
    [error |-> <<"Invalid Datetime, effective date must be a maximum of 10 days ahead.">>]

\* incorporation_json['filing']['header']['effectiveDate'] raises KeyError
HasEffectiveDate(filing) ==
    "header" \in DOMAIN filing /\ "effectiveDate" \in DOMAIN filing.header

\* The two bound checks (lines 287-291).
\* (Variants: a minimum test that reads `<=`; the two bounds swapped.)
BoundErrors_inclusive(effective_date, now) ==
    (IF effective_date <= now + TwoMinutes THEN <<MinTwoMinutesAhead>> ELSE <<>>)
    \o (IF effective_date > now + TenDays * MinutesPerDay
        THEN <<MaxTenDaysAhead>> ELSE <<>>)

BoundErrors_swapped(effective_date, now) ==
    (IF effective_date < now + TenDays * MinutesPerDay
        THEN <<MinTwoMinutesAhead>> ELSE <<>>)
    \o (IF effective_date > now + TwoMinutes THEN <<MaxTenDaysAhead>> ELSE <<>>)

BoundErrors(effective_date, now) ==
    (IF effective_date < now + TwoMinutes THEN <<MinTwoMinutesAhead>> ELSE <<>>)
    \o (IF effective_date > now + TenDays * MinutesPerDay
        THEN <<MaxTenDaysAhead>> ELSE <<>>)

validate_incorporation_effective_date(filing, now) ==
    IF ~HasEffectiveDate(filing)
    THEN PyList(<<>>)
    ELSE LET filing_effective_date == filing.header.effectiveDate
             parsed == fromisoformat(filing_effective_date)
         IN  IF ~parsed.ok
             THEN PyList(<<InvalidISOFormat(filing_effective_date)>>)
             ELSE MsgOrNone(BoundErrors(parsed.t, now))

(***************************************************************************)
(* Inputs of validate_incorporation_effective_date                         *)
(***************************************************************************)
MaxNow == 2
MaxDay == 11
MaxMinute == 3

\* Well-formed timestamps, a time of day out of range, and a text that is
\* no timestamp.
DateTexts ==
    ((0..MaxDay) \X ((0..MaxMinute) \cup {MinutesPerDay})) \cup {<<"tomorrow">>}

Headers ==
    {[name |-> "incorporationApplication"]}
    \cup {[name |-> "incorporationApplication", effectiveDate |-> d] : d \in DateTexts}

InitDate ==
    /\ \E now \in 0..MaxNow :
          \/ input = [filing |-> [incorporationApplication |-> <<>>], now |-> now]
          \/ \E h \in Headers :
                input = [filing |-> [header |-> h, incorporationApplication |-> <<>>],
                         now |-> now]
    /\ pc = "validate_incorporation_effective_date"
    /\ msg = <<>>
    /\ called = <<>>
    /\ result = NotReturned

CallValidateIncorporationEffectiveDate ==
    /\ pc = "validate_incorporation_effective_date"
    /\ result' = validate_incorporation_effective_date(input.filing, input.now)
    /\ pc' = "returned"
    /\ UNCHANGED <<input, msg, called>>

NextDate == CallValidateIncorporationEffectiveDate

SpecDate == InitDate /\ [][NextDate]_vars

(***************************************************************************)
(* validate_cooperative_documents, validate_ia_court_order                 *)
(***************************************************************************)
CooperativePath == <<"filing", "incorporationApplication", "cooperative">>
CourtOrderPath == <<"filing", "incorporationApplication", "courtOrder">>

CooperativeMissing ==
    [error |-> <<"cooperative data is missing in incorporationApplication.">>,
     path |-> CooperativePath]

\* What the collaborators of common_validations answer, each an error
\* list or None: validate_pdf(file_key, path), validate_court_order(path,
\* court_order), validate_party_name(legal_type, party, path),
\* validate_name_request(json, legal_type, filing_type) and
\* validate_share_structure(json, filing_type).
CollaboratorError(rule, path) == [error |-> <<rule, " failed">>, path |-> path]
CollaboratorAnswers(rule, path) ==
    {PyNone, PyList(<<>>), PyList(<<CollaboratorError(rule, path)>>)}
CollaboratorLists(rule, path) ==
    {<<>>, <<CollaboratorError(rule, path)>>}

\* `if section := incorporation_json['filing']['incorporationApplication'].get(key)`:
\* an absent key and an empty section are falsy.
HasSection(filing, key) ==
    /\ key \in DOMAIN filing.incorporationApplication
    /\ DOMAIN filing.incorporationApplication[key] # {}

validate_cooperative_documents(filing, rules_err, memorandum_err) ==
    IF ~HasSection(filing, "cooperative")
    THEN <<CooperativeMissing>>
    ELSE ExtendIf(ExtendIf(<<>>, rules_err), memorandum_err)

validate_ia_court_order(filing, err) ==
    IF HasSection(filing, "courtOrder") /\ Truthy(err) THEN err.items ELSE <<>>

validate_parties_names(party_errs) == MsgOrNone(Flatten(party_errs))

(***************************************************************************)
(* validate                                                                *)
(***************************************************************************)
LegalTypePath == <<"filing", "incorporationApplication", "nameRequest", "legalType">>
ValidFilingRequired == [error |-> <<"A valid filing is required.">>]
LegalTypeRequired == [error |-> <<"Legal type is required.">>, path |-> LegalTypePath]

\* get_str(incorporation_json, legal_type_path): the string at the path, or
\* None when a key of the path is missing.
get_str_legal_type(incorporation_json) ==
    LET ia == incorporation_json.filing.incorporationApplication
    IN  IF "nameRequest" \in DOMAIN ia /\ "legalType" \in DOMAIN ia.nameRequest
        THEN ia.nameRequest.legalType ELSE None

\* `if not incorporation_json`
IsEmptyJson(incorporation_json) == DOMAIN incorporation_json = {}

ShareStructureTypes == {BCOMP, BC_ULC_COMPANY, COMP, BC_CCC}

Log(rule, out) == [rule |-> rule, out |-> out]

\* Lines 41-49: the two early returns.
Begin ==
    /\ pc = "validate"
    /\ IF IsEmptyJson(input.json)
       THEN /\ result' = Error(BAD_REQUEST, <<ValidFilingRequired>>)
            /\ pc' = "returned"
            /\ msg' = msg
       ELSE IF Falsy(get_str_legal_type(input.json))
       THEN /\ msg' = msg \o <<LegalTypeRequired>>
            /\ result' = PyList(msg')
            /\ pc' = "returned"
       ELSE /\ pc' = "validate_offices"
            /\ UNCHANGED <<msg, result>>
    /\ UNCHANGED <<input, called>>

legal_type == get_str_legal_type(input.json)

\* A rule-checker whose answer is a list: `msg.extend(rule(...))`.
\* (A variant that returns at the first rule-checker that reports.)
Extend_returnsOnError(rule, out, next) ==
    /\ pc = rule
    /\ msg' = msg \o out
    /\ called' = Append(called, Log(rule, PyList(out)))
    /\ IF out # <<>>
       THEN /\ result' = Error(BAD_REQUEST, msg')
            /\ pc' = "returned"
       ELSE /\ pc' = next
            /\ result' = result
    /\ UNCHANGED input

Extend(rule, out, next) ==
    /\ pc = rule
    /\ msg' = msg \o out
    /\ called' = Append(called, Log(rule, PyList(out)))
    /\ pc' = next
    /\ UNCHANGED <<input, result>>

\* A rule-checker whose answer is a list or None:
\* `err = rule(...)`, `if err: msg.extend(err)`; an exception leaves validate.
ExtendIfErr(rule, err, next) ==
    /\ pc = rule
    /\ called' = Append(called, Log(rule, err))
    /\ IF err.kind = "raise"
       THEN /\ result' = err
            /\ pc' = "raised"
            /\ msg' = msg
       ELSE /\ msg' = ExtendIf(msg, err)
            /\ pc' = next
            /\ result' = result
    /\ UNCHANGED input

CallValidateOfficesStep ==
    Extend("validate_offices",
           validate_offices(input.json.filing, "incorporationApplication"),
           "validate_roles")

CallValidateRolesStep ==
    ExtendIfErr("validate_roles",
                validate_roles(input.json.filing, legal_type, "incorporationApplication"),
                "validate_parties_names")

PartiesPath == <<"filing", "incorporationApplication", "parties">>

CallValidatePartiesNamesStep ==
    /\ pc = "validate_parties_names"
    /\ \E party_errs \in [1..Len(input.json.filing.incorporationApplication.parties)
                             -> CollaboratorLists("validate_party_name", PartiesPath)] :
          ExtendIfErr("validate_parties_names", validate_parties_names(party_errs),
                      "validate_parties_mailing_address")

CallValidatePartiesMailingAddressStep ==
    ExtendIfErr("validate_parties_mailing_address",
                validate_parties_mailing_address(input.json.filing, legal_type,
                                                 "incorporationApplication"),
                "validate_name_request")

NameRequestPath == <<"filing", "incorporationApplication", "nameRequest">>

CallValidateNameRequestStep ==
    \E out \in CollaboratorLists("validate_name_request", NameRequestPath) :
        Extend("validate_name_request", out, "structure")

ShareStructurePath == <<"filing", "incorporationApplication", "shareStructure">>

\* Lines 70-77: share structure, cooperative documents, or neither.
CallValidateShareStructureStep ==
    /\ pc = "structure"
    /\ legal_type \in ShareStructureTypes
    /\ \E err \in CollaboratorAnswers("validate_share_structure", ShareStructurePath) :
          /\ msg' = ExtendIf(msg, err)
          /\ called' = Append(called, Log("validate_share_structure", err))
    /\ pc' = "validate_incorporation_effective_date"
    /\ UNCHANGED <<input, result>>

RulesFileKeyPath == CooperativePath \o <<"rulesFileKey">>
MemorandumFileKeyPath == CooperativePath \o <<"memorandumFileKey">>

CallValidateCooperativeDocumentsStep ==
    /\ pc = "structure"
    /\ legal_type \notin ShareStructureTypes
    /\ legal_type = COOP
    /\ \E rules_err \in CollaboratorAnswers("validate_pdf", RulesFileKeyPath) :
       \E memorandum_err \in CollaboratorAnswers("validate_pdf", MemorandumFileKeyPath) :
          LET out == validate_cooperative_documents(input.json.filing, rules_err,
                                                    memorandum_err)
          IN  /\ msg' = msg \o out
              /\ called' = Append(called, Log("validate_cooperative_documents", PyList(out)))
    /\ pc' = "validate_incorporation_effective_date"
    /\ UNCHANGED <<input, result>>

SkipStructureStep ==
    /\ pc = "structure"
    /\ legal_type \notin ShareStructureTypes
    /\ legal_type # COOP
    /\ pc' = "validate_incorporation_effective_date"
    /\ UNCHANGED <<input, msg, called, result>>

CallValidateIncorporationEffectiveDateStep ==
    ExtendIfErr("validate_incorporation_effective_date",
                validate_incorporation_effective_date(input.json.filing, input.now),
                "validate_ia_court_order")

CallValidateIaCourtOrderStep ==
    \E err \in CollaboratorAnswers("validate_court_order", CourtOrderPath) :
        Extend("validate_ia_court_order",
               validate_ia_court_order(input.json.filing, err), "return")

\* Lines 85-87.
Return ==
    /\ pc = "return"
    /\ result' = IF msg # <<>> THEN Error(BAD_REQUEST, msg) ELSE PyNone
    /\ pc' = "returned"
    /\ UNCHANGED <<input, msg, called>>

(***************************************************************************)
(* Inputs of validate                                                      *)
(***************************************************************************)
MaxParties == 2

DirectorRole == <<[roleType |-> "Director"]>>
AllRoles ==
    <<[roleType |-> "Completing Party"], [roleType |-> "Incorporator"],
      [roleType |-> "Director"]>>

\* A party that holds every role and lives in BC, a director whose address
\* is a null street and nothing else, a director in the US.
PartyKinds ==
    {[roles |-> AllRoles,
      mailingAddress |-> <<<<"streetAddress", "123 Main St">>, <<"addressRegion", "BC">>,
                           <<"addressCountry", "CA">>>>],
     [roles |-> DirectorRole,
      mailingAddress |-> <<<<"streetAddress", None>>>>],
     [roles |-> DirectorRole,
      mailingAddress |-> <<<<"addressRegion", "AB">>, <<"addressCountry", "US">>>>]}

PartiesOf(kinds) ==
    [i \in 1..Len(kinds) |->
        [officer |-> [id |-> ToString(i)], roles |-> kinds[i].roles,
         mailingAddress |-> kinds[i].mailingAddress]]

\* Offices that pass, and offices with a key that is not allowed and an
\* address outside BC and Canada.
OfficeKinds ==
    {<<<<"registeredOffice",
         <<<<"mailingAddress", [addressRegion |-> "BC", addressCountry |-> "Canada"]>>>>>>>>,
     <<<<"customOffice", <<>>>>,
       <<"recordsOffice",
         <<<<"deliveryAddress", [addressRegion |-> "AB", addressCountry |-> "US"]>>>>>>>>}

\* nameRequest with a legal type, with an empty one, and without.
NameRequests ==
    {[nrNumber |-> "NR 1234567", legalType |-> t] : t \in LegalTypes \cup {""}}
    \cup {[nrNumber |-> "NR 1234567"]}

CooperativeSection == [rulesFileKey |-> "rules.pdf", memorandumFileKey |-> "memorandum.pdf"]
CourtOrderSection == [fileNumber |-> "12345", effectOfOrder |-> "planOfArrangement"]

Applications(nr, o, p) ==
    {[nameRequest |-> nr, offices |-> o, parties |-> p],
     [nameRequest |-> nr, offices |-> o, parties |-> p,
      cooperative |-> CooperativeSection],
     [nameRequest |-> nr, offices |-> o, parties |-> p,
      courtOrder |-> CourtOrderSection],
     [nameRequest |-> nr, offices |-> o, parties |-> p,
      cooperative |-> CooperativeSection, courtOrder |-> CourtOrderSection]}

\* No effective date, one a minute ahead, one five days ahead (the clock
\* reads 0).
Filings(ia) ==
    {[incorporationApplication |-> ia],
     [header |-> [name |-> "incorporationApplication", effectiveDate |-> <<0, 1>>],
      incorporationApplication |-> ia],
     [header |-> [name |-> "incorporationApplication", effectiveDate |-> <<5, 0>>],
      incorporationApplication |-> ia]}

Init ==
    /\ \/ input = [json |-> <<>>, now |-> 0]
       \/ \E nr \in NameRequests : \E o \in OfficeKinds :
          \E kinds \in SeqsUpTo(PartyKinds, MaxParties) :
          \E ia \in Applications(nr, o, PartiesOf(kinds)) : \E f \in Filings(ia) :
             input = [json |-> [filing |-> f], now |-> 0]
    /\ pc = "validate"
    /\ msg = <<>>
    /\ called = <<>>
    /\ result = NotReturned

Next ==
    \/ Begin
    \/ CallValidateOfficesStep
    \/ CallValidateRolesStep
    \/ CallValidatePartiesNamesStep
    \/ CallValidatePartiesMailingAddressStep
    \/ CallValidateNameRequestStep
    \/ CallValidateShareStructureStep
    \/ CallValidateCooperativeDocumentsStep
    \/ SkipStructureStep
    \/ CallValidateIncorporationEffectiveDateStep
    \/ CallValidateIaCourtOrderStep
    \/ Return

Spec == Init /\ [][Next]_vars

(***************************************************************************)
(* validate_correction_ia                                                  *)
(***************************************************************************)
NrNumberPath == <<"filing", "incorporationApplication", "nameRequest", "nrNumber">>
LegalNamePath == <<"filing", "incorporationApplication", "nameRequest", "legalName">>

MissingCorrectedFiling == [error |-> <<"Missing the id of the filing being corrected.">>]
EffectiveDateChanged ==
    [error |-> <<"The effective date of a filing cannot be changed in a correction.">>]
NameRequestNotApproved ==
    [error |-> <<"Correction of Name Request is not approved.">>, path |-> NrNumberPath]
NameRequestWrongType ==
    [error |-> <<"Correction of Name Request is not vaild for this type.">>,
     path |-> LegalTypePath]
NameRequestDifferentName ==
    [error |-> <<"Correction of Name Request has a different legal name.">>,
     path |-> LegalNamePath]

\* json.get('filing', {}).get('header', {}).get('effectiveDate'): the value
\* in a sequence, the empty sequence for None.
EffectiveDateOf(json) ==
    IF "filing" \in DOMAIN json /\ "header" \in DOMAIN json.filing
       /\ "effectiveDate" \in DOMAIN json.filing.header
    THEN <<json.filing.header.effectiveDate>> ELSE <<>>

\* get_str(json, path) for a field of nameRequest.
get_str_name_request(json, field) ==
    LET ia == json.filing.incorporationApplication
    IN  IF "nameRequest" \in DOMAIN ia /\ field \in DOMAIN ia.nameRequest
        THEN ia.nameRequest[field] ELSE None

\* The error, in a sequence, or the empty sequence for None.
\* (A variant that also reports a date left out of the correction.)
validate_correction_effective_date_whenAbsent(filing, corrected_filing) ==
    IF EffectiveDateOf(filing) # EffectiveDateOf(corrected_filing)
    THEN <<EffectiveDateChanged>> ELSE <<>>

validate_correction_effective_date(filing, corrected_filing) ==
    LET new_effective_date == EffectiveDateOf(filing)
    IN  IF new_effective_date # <<>>
           /\ new_effective_date # EffectiveDateOf(corrected_filing)
        THEN <<EffectiveDateChanged>> ELSE <<>>

\* nr_response is what namex answers for the new number: whether the name
\* request is consumable (validate_nr) and its approved name.
validate_correction_name_request(filing, corrected_filing, nr_response) ==
    LET nr_number == get_str_name_request(corrected_filing, "nrNumber")
        new_nr_number == get_str_name_request(filing, "nrNumber")
    IN  IF nr_number = new_nr_number
        THEN PyNone
        ELSE MsgOrNone(
                (IF ~nr_response.is_consumable THEN <<NameRequestNotApproved>> ELSE <<>>)
                \o (IF get_str_name_request(filing, "legalType") # BCOMP
                    THEN <<NameRequestWrongType>> ELSE <<>>)
                \o (IF nr_response.approved_name # get_str_name_request(filing, "legalName")
                    THEN <<NameRequestDifferentName>> ELSE <<>>))

\* Whether validate_correction_name_request reaches namex.query_nr_number.
QueriesNamex(filing, corrected_filing) ==
    get_str_name_request(corrected_filing, "nrNumber")
        # get_str_name_request(filing, "nrNumber")

LegalNames == {"A Ltd.", "B Ltd."}
NrResponses == [is_consumable : BOOLEAN, approved_name : LegalNames]

\* Lines 331-334: Filing.find_by_id; input.corrected holds the filing found,
\* and is empty when there is none.
FindCorrectedFiling ==
    /\ pc = "validate_correction_ia"
    /\ IF input.corrected = <<>>
       THEN /\ result' = Error(BAD_REQUEST, <<MissingCorrectedFiling>>)
            /\ pc' = "returned"
       ELSE /\ pc' = "validate_correction_name_request"
            /\ result' = result
    /\ UNCHANGED <<input, msg, called>>

\* Lines 337-338.
CallValidateCorrectionNameRequest ==
    /\ pc = "validate_correction_name_request"
    /\ \E nr_response \in NrResponses :
          LET err == validate_correction_name_request(input.json, input.corrected[1],
                                                      nr_response)
          IN  /\ msg' = ExtendIf(msg, err)
              /\ called' = Append(called, Log("validate_correction_name_request", err))
    /\ pc' = "validate_correction_effective_date"
    /\ UNCHANGED <<input, result>>

\* namex.query_nr_number fails: nothing catches the exception.
NamexQueryFails ==
    /\ pc = "validate_correction_name_request"
    /\ QueriesNamex(input.json, input.corrected[1])
    /\ called' = Append(called, Log("validate_correction_name_request",
                                    Raised("namex.query_nr_number")))
    /\ result' = Raised("namex.query_nr_number")
    /\ pc' = "raised"
    /\ UNCHANGED <<input, msg>>

\* Lines 340-341: `msg.append(err)`.
CallValidateCorrectionEffectiveDate ==
    /\ pc = "validate_correction_effective_date"
    /\ LET err == validate_correction_effective_date(input.json, input.corrected[1])
       IN  /\ msg' = msg \o err
           /\ called' = Append(called, Log("validate_correction_effective_date",
                                           PyList(err)))
    /\ pc' = "return_correction"
    /\ UNCHANGED <<input, result>>

\* Lines 343-346.
ReturnCorrection ==
    /\ pc = "return_correction"
    /\ result' = IF msg # <<>> THEN Error(BAD_REQUEST, msg) ELSE PyNone
    /\ pc' = "returned"
    /\ UNCHANGED <<input, msg, called>>

(***************************************************************************)
(* Inputs of validate_correction_ia                                        *)
(***************************************************************************)
CorrectionDates == {<<1, 0>>, <<2, 0>>}
NrNumbers == {"NR 1234567", "NR 7654321"}

CorrectionNameRequests ==
    [legalType : {BCOMP, COOP}, legalName : LegalNames]
    \cup [nrNumber : NrNumbers, legalType : {BCOMP, COOP}, legalName : LegalNames]

\* A filing with or without a header, the header with or without a date.
WithHeaders(body) ==
    {body} \cup {body @@ [header |-> [name |-> "correction"]]}
    \cup {body @@ [header |-> [name |-> "correction", effectiveDate |-> d]] :
             d \in CorrectionDates}

CorrectionFilings ==
    UNION {WithHeaders([correction |-> [correctedFilingId |-> 1],
                        incorporationApplication |-> [nameRequest |-> nr]]) :
              nr \in CorrectionNameRequests}

CorrectedFilings ==
    UNION {WithHeaders([incorporationApplication |-> [nameRequest |-> nr]]) :
              nr \in {[legalType |-> BCOMP, legalName |-> "A Ltd."],
                      [nrNumber |-> "NR 1234567", legalType |-> BCOMP,
                       legalName |-> "A Ltd."]}}

InitCorrection ==
    /\ \E f \in CorrectionFilings :
          \/ input = [json |-> [filing |-> f], corrected |-> <<>>]
          \/ \E c \in CorrectedFilings :
                input = [json |-> [filing |-> f], corrected |-> <<[filing |-> c]>>]
    /\ pc = "validate_correction_ia"
    /\ msg = <<>>
    /\ called = <<>>
    /\ result = NotReturned

NextCorrection ==
    \/ FindCorrectedFiling
    \/ CallValidateCorrectionNameRequest
    \/ NamexQueryFails
    \/ CallValidateCorrectionEffectiveDate
    \/ ReturnCorrection

SpecCorrection == InitCorrection /\ [][NextCorrection]_vars

(***************************************************************************)
(* Properties                                                              *)
(***************************************************************************)
\* The errors a result carries.
Items(r) ==
    CASE r.kind = "list" -> r.items
      [] r.kind = "Error" -> r.msg
      [] OTHER -> <<>>

\* How often e stands in the list errs.
Occurrences(errs, e) == Cardinality({i \in 1..Len(errs) : errs[i] = e})
Has(errs, e) == Occurrences(errs, e) > 0
OneIf(cond) == IF cond THEN 1 ELSE 0

\* The role entries <<party, position>> of the filing that carry roleType.
EntriesWithRole(parties, roleType) ==
    UNION {{<<i, j>> : j \in {k \in 1..Len(parties[i].roles) :
                                parties[i].roles[k].roleType = roleType}} :
              i \in 1..Len(parties)}

Known == ~IsEmptyJson(input.json) /\ ~Falsy(get_str_legal_type(input.json))

\* C1: a non-empty filing without a legal type gets a 400 Error envelope
\* holding the legal-type error alone, and no rule-checker runs.
C1_MissingLegalTypeEnvelope ==
    (pc = "returned" /\ ~IsEmptyJson(input.json)
        /\ Falsy(get_str_legal_type(input.json)))
    => /\ result = Error(BAD_REQUEST, <<LegalTypeRequired>>)
       /\ called = <<>>

\* The order validate calls its rule-checkers in, by legal type.
ExpectedOrder(lt) ==
    <<"validate_offices", "validate_roles", "validate_parties_names",
      "validate_parties_mailing_address", "validate_name_request">>
    \o (IF lt \in {BCOMP, BC_ULC_COMPANY, COMP, BC_CCC}
        THEN <<"validate_share_structure">>
        ELSE IF lt = COOP THEN <<"validate_cooperative_documents">> ELSE <<>>)
    \o <<"validate_incorporation_effective_date", "validate_ia_court_order">>

RulesCalled == [i \in 1..Len(called) |-> called[i].rule]
Reported == Flatten([i \in 1..Len(called) |-> Items(called[i].out)])

\* C2: with a legal type, validate calls the rule-checkers in the fixed
\* order whatever the earlier ones reported, and when all have returned
\* it returns the concatenation of their errors in a 400 Error, or None
\* when there is none.
C2_RulesInOrderAndAccumulated ==
    Known =>
        /\ Len(called) <= Len(ExpectedOrder(legal_type))
        /\ RulesCalled = SubSeq(ExpectedOrder(legal_type), 1, Len(called))
        /\ pc = "returned" =>
              /\ RulesCalled = ExpectedOrder(legal_type)
              /\ result = IF Reported # <<>> THEN Error(BAD_REQUEST, Reported)
                          ELSE PyNone

C2_Witness ==
    /\ pc = "returned"
    /\ Known
    /\ legal_type = COOP
    /\ Len(called) = 8
    /\ Items(called[1].out) # <<>>
    /\ Items(called[6].out) # <<>>
    /\ Items(called[8].out) # <<>>
    /\ result.kind = "Error"

\* The parties of the filing whose mailing address has a country / has
\* country CA / has region BC, each party counted once.
PartiesWith(parties, field, values) ==
    {i \in 1..Len(parties) :
        \E j \in 1..Len(parties[i].mailingAddress) :
            /\ parties[i].mailingAddress[j][1] = field
            /\ parties[i].mailingAddress[j][2] \in values}

WithCountry(parties) == PartiesWith(parties, "addressCountry", {"CA", "US"})
InCanada(parties) == PartiesWith(parties, "addressCountry", {"CA"})
InBC(parties) == PartiesWith(parties, "addressRegion", {"BC"})

MailingErrors == Items(result)
MailingPartiesInput == input.filing.incorporationApplication.parties

\* C3: for a cooperative, the majority error is reported exactly when the
\* parties in Canada are at most half of the parties with a country, each
\* party counted once, and the BC error exactly when no party is in BC.
C3_MajorityCountsParties ==
    (pc = "returned" /\ input.legal_type = COOP) =>
        /\ Has(MailingErrors, [error |-> MajorityInCanada,
                               path |-> MailingPath(input.filing_type)])
           <=> 2 * Cardinality(InCanada(MailingPartiesInput))
                  <= Cardinality(WithCountry(MailingPartiesInput))
        /\ Has(MailingErrors, [error |-> MinOneBC,
                               path |-> MailingPath(input.filing_type)])
           <=> InBC(MailingPartiesInput) = {}

ValidateParties == input.json.filing.incorporationApplication.parties
MailingRuleCalled == Len(called) >= 4

\* C4: for a cooperative none of whose parties has a mailing-address
\* country, the mailing-address rule raises on the zero denominator and
\* validate returns nothing: neither None nor an Error, whatever errors had
\* been accumulated; for any other legal type the rule returns.
C4_ZeroDenominatorRaises ==
    (Known /\ MailingRuleCalled) =>
        /\ (legal_type = COOP /\ WithCountry(ValidateParties) = {}) =>
              /\ called[4] = Log("validate_parties_mailing_address",
                                 Raised("ZeroDivisionError"))
              /\ pc = "raised"
              /\ result = Raised("ZeroDivisionError")
              /\ Items(result) = <<>>
        /\ legal_type # COOP =>
              /\ called[4].rule = "validate_parties_mailing_address"
              /\ called[4].out.kind \in {"None", "list"}
              /\ pc # "raised"

C4_Witness ==
    /\ pc = "raised"
    /\ Known
    /\ legal_type = COOP
    /\ Len(ValidateParties) > 0
    /\ Len(msg) >= 3
    /\ result = Raised("ZeroDivisionError")

RolesParties == input.filing[input.filing_type].parties
RolesErrors == Items(result)

\* C5: for a new incorporation, no completing party gives the minimum
\* error once, two or more the maximum error once, exactly one neither;
\* the count is over all role entries of all parties.
C5_CompletingPartyCount ==
    (pc = "returned" /\ input.filing_type = "incorporationApplication") =>
        LET n == Cardinality(EntriesWithRole(RolesParties, "Completing Party"))
        IN  /\ Occurrences(RolesErrors, RolesError(MinCompletingParty, input.filing_type))
               = OneIf(n = 0)
            /\ Occurrences(RolesErrors, RolesError(MaxCompletingParty, input.filing_type))
               = OneIf(n >= 2)
            /\ ~Has(RolesErrors, RolesError(StaffCompletingParty, input.filing_type))

C5_Witness ==
    /\ pc = "returned"
    /\ input.filing_type = "incorporationApplication"
    /\ \E i \in 1..Len(RolesParties) :
          RolesParties[i].roles = <<[roleType |-> "Completing Party"],
                                    [roleType |-> "Completing Party"]>>
    /\ Occurrences(RolesErrors, RolesError(MaxCompletingParty, input.filing_type)) = 1

\* C6: for a cooperative, the three-directors error is reported exactly
\* when there are fewer than three directors, the invalid-incorporator
\* error exactly when there is an incorporator, and neither the
\* minimum-of-one-incorporator error nor the minimum-director table applies.
C6_CooperativeRoles ==
    (pc = "returned" /\ input.legal_type = COOP) =>
        LET directors == Cardinality(EntriesWithRole(RolesParties, "Director"))
            incorporators == Cardinality(EntriesWithRole(RolesParties, "Incorporator"))
        IN  /\ Occurrences(RolesErrors, RolesError(MinThreeDirectors, input.filing_type))
               = OneIf(directors < 3)
            /\ Occurrences(RolesErrors, RolesError(InvalidIncorporator, input.filing_type))
               = OneIf(incorporators > 0)
            /\ ~Has(RolesErrors, RolesError(MinOneIncorporator, input.filing_type))
            /\ \A i \in 1..Len(RolesErrors) :
                  ~(Len(RolesErrors[i].error) = 3 /\ RolesErrors[i].error[3] = " Director")

C6_Witness ==
    /\ pc = "returned"
    /\ input.legal_type = COOP
    /\ Cardinality(EntriesWithRole(RolesParties, "Director")) = 3
    /\ Cardinality(EntriesWithRole(RolesParties, "Incorporator")) = 1
    /\ RolesErrors = <<RolesError(InvalidIncorporator, input.filing_type)>>

DateErrors == Items(result)
DatePresent == HasEffectiveDate(input.filing)
DateText == input.filing.header.effectiveDate
DateParses == DatePresent /\ fromisoformat(DateText).ok
DateValue == fromisoformat(DateText).t

\* C7: no effective date, no error; a text that does not parse, the format
\* error alone; a date that parses, the minimum error exactly when it is
\* before now + 2 minutes and the maximum error exactly when it is after
\* now + 10 days, and nothing else.
C7_EffectiveDateRules ==
    pc = "returned" =>
        /\ ~DatePresent => DateErrors = <<>>
        /\ (DatePresent /\ ~DateParses) => DateErrors = <<InvalidISOFormat(DateText)>>
        /\ DateParses =>
              /\ Occurrences(DateErrors, MinTwoMinutesAhead)
                 = OneIf(DateValue < input.now + 2)
              /\ Occurrences(DateErrors, MaxTenDaysAhead)
                 = OneIf(DateValue > input.now + 14400)
              /\ Len(DateErrors) = OneIf(DateValue < input.now + 2)
                                   + OneIf(DateValue > input.now + 14400)

C7_Witness ==
    /\ pc = "returned"
    /\ DateParses
    /\ DateValue = input.now + 2
    /\ input.now > 0
    /\ result = PyNone

\* C10 as stated: among the clocks and the effective dates of the
\* specification, some parsed effective date and some `now` give a list
\* that holds both bound errors.
C10_BothBoundsCanFire ==
    /\ input.now \in 0..MaxNow
    /\ \E now \in 0..MaxNow : \E text \in DateTexts :
          /\ fromisoformat(text).ok
          /\ LET errs == Items(validate_incorporation_effective_date(
                                  [header |-> [effectiveDate |-> text]], now))
             IN  Has(errs, MinTwoMinutesAhead) /\ Has(errs, MaxTenDaysAhead)

\* C10, amended: the two bound checks are separate, but a parsed date is
\* never both before now + 2 minutes and after now + 10 days: the list
\* holds at most one of the two bound errors.
C10_BoundErrorsExclusive ==
    (pc = "returned" /\ DateParses) =>
        /\ ~(Has(DateErrors, MinTwoMinutesAhead) /\ Has(DateErrors, MaxTenDaysAhead))
        /\ Len(DateErrors) <= 1

C10_Witness ==
    /\ pc = "returned"
    /\ DateParses
    /\ DateErrors = <<MinTwoMinutesAhead>>
    /\ DateValue = input.now + 1

OfficesInput == input.filing[input.filing_type].offices
OfficeErrors == Items(result)
ResolvesToCA(country) ==
    search_fuzzy(country) # <<>> /\ search_fuzzy(country)[1] = "CA"

\* The address errors expected under an allowed office key.
ExpectedAddressErrors(entries) ==
    Sum([j \in 1..Len(entries) |->
            OneIf(entries[j][2].addressRegion # "BC")
            + OneIf(~ResolvesToCA(entries[j][2].addressCountry))])

\* C8: an office key that is not allowed gives one invalid-office error
\* and no address error under it; an address under an allowed key gives a
\* region error exactly when its region is not BC and, independently, a
\* country error exactly when its country does not resolve to CA.
C8_OfficeErrors ==
    pc = "returned" =>
        /\ \A i \in 1..Len(OfficesInput) :
              LET key == OfficesInput[i][1]
                  entries == OfficesInput[i][2]
              IN  IF key \notin {"registeredOffice", "recordsOffice"}
                  THEN /\ Occurrences(OfficeErrors,
                                      InvalidOfficeError(input.filing_type, key)) = 1
                       /\ \A e \in 1..Len(OfficeErrors) :
                             ~(Len(OfficeErrors[e].path) >= 4
                               /\ OfficeErrors[e].path[4] = key)
                  ELSE /\ ~Has(OfficeErrors, InvalidOfficeError(input.filing_type, key))
                       /\ \A j \in 1..Len(entries) :
                             /\ Occurrences(OfficeErrors,
                                    RegionError(input.filing_type, key, entries[j][1]))
                                = OneIf(entries[j][2].addressRegion # "BC")
                             /\ Occurrences(OfficeErrors,
                                    CountryError(input.filing_type, key, entries[j][1]))
                                = OneIf(~ResolvesToCA(entries[j][2].addressCountry))
        /\ Len(OfficeErrors)
           = Sum([i \in 1..Len(OfficesInput) |->
                    IF OfficesInput[i][1] \in {"registeredOffice", "recordsOffice"}
                    THEN ExpectedAddressErrors(OfficesInput[i][2]) ELSE 1])

C8_Witness ==
    /\ pc = "returned"
    /\ Len(OfficesInput) = 2
    /\ OfficesInput[1][1] = "customOffice"
    /\ OfficesInput[1][2] =
          <<<<"mailingAddress", [addressRegion |-> "AB", addressCountry |-> "Atlantis"]>>>>
    /\ OfficesInput[2] =
          <<"registeredOffice",
            <<<<"deliveryAddress", [addressRegion |-> "AB", addressCountry |-> "CA"]>>>>>>
    /\ OfficeErrors =
          <<InvalidOfficeError(input.filing_type, "customOffice"),
            RegionError(input.filing_type, "registeredOffice", "deliveryAddress")>>

NewDate == EffectiveDateOf(input.json)
OriginalDate == EffectiveDateOf(input.corrected[1])

\* C9: with the prior filing found, the returned errors hold the
\* effective-date error once when a new effective date is given and
\* differs from the original's, and not at all when it is equal or absent;
\* without the prior filing the result is a single-error 400 Error and
\* neither correction rule runs.
C9_CorrectionEffectiveDate ==
    /\ input.corrected = <<>> =>
          /\ called = <<>>
          /\ pc = "returned" => result = Error(BAD_REQUEST, <<MissingCorrectedFiling>>)
    /\ (input.corrected # <<>> /\ pc = "returned") =>
          /\ result.kind \in {"Error", "None"}
          /\ Occurrences(Items(result), EffectiveDateChanged)
             = OneIf(NewDate # <<>> /\ NewDate # OriginalDate)

C9_Witness ==
    /\ pc = "returned"
    /\ input.corrected # <<>>
    /\ NewDate # <<>>
    /\ OriginalDate # <<>>
    /\ NewDate # OriginalDate
    /\ result.kind = "Error"
    /\ Len(result.msg) = 4
    /\ result.msg[4] = EffectiveDateChanged

====
